---- MODULE Spec2Model ----
(***************************************************************************)
(* A model of the fake-data HTTP service (package http_server):            *)
(*   api_handler.py  APIRequestHandler: do_GET routing, handle_generate,   *)
(*                   handle_types, handle_health, handle_root and the      *)
(*                   send_* helpers;                                       *)
(*   fake_data.py    FakeDataGenerator: __init__, generate (the dispatch   *)
(*                   table generator_map), generate_profile,               *)
(*                   generate_user, get_available_types;                   *)
(*   server.py       ThreadedHTTPServer: one worker thread per request.    *)
(*                                                                         *)
(* Each worker runs one request at a time; pc is its position in the       *)
(* handler.  Strings that the code parses (the count parameter) are        *)
(* sequences of characters; other strings are TLA+ strings.  Messages are  *)
(* tuples <<fixed text, interpolated value>> (Python f-strings).           *)
(*                                                                         *)
(* The Faker backend is not part of the repository.  What the model takes  *)
(* from it is named in the section "The data-generation backend".          *)
(***************************************************************************)
EXTENDS Integers, Sequences, FiniteSets, TLC

VARIABLES
    pc,        \* pc[t]: position of worker t in the request handler
    path,      \* path[t]: self.path, the request target of worker t
    frame,     \* frame[t]: the locals of handle_generate
    wfile,     \* wfile[t]: what worker t has written to its connection
    heap,      \* the FakeDataGenerator objects alive, by identity
    invoked,   \* invoked[t]: history, the values the producer returned, in call order
    raised     \* raised[t]: history, the last exception raised in the try block

vars == <<pc, path, frame, wfile, heap, invoked, raised>>

Workers == DOMAIN pc

---------------------------------------------------------------------------
(* Bounds of the model *)

\* Longest count parameter value offered to the sequential specification.
MaxLen == 3
\* Number of concurrent worker threads of the concurrent specification.
NumWorkers == 2
\* Number of distinct values the random source yields (values repeat).
NumValues == 2

(* Program constants *)

\* api_handler.py:52  count < 1
MinCount == 1
\* api_handler.py:52  count > 100
MaxCount == 100

---------------------------------------------------------------------------
(* Python's int(str), as far as the characters offered need it: an         *)
(* optional sign followed by one or more decimal digits.                   *)

Digits == {"0", "1", "2", "3", "4", "5", "6", "7", "8", "9"}

DigitValue(c) ==
    CASE c = "0" -> 0 [] c = "1" -> 1 [] c = "2" -> 2 [] c = "3" -> 3
      [] c = "4" -> 4 [] c = "5" -> 5 [] c = "6" -> 6 [] c = "7" -> 7
      [] c = "8" -> 8 [] c = "9" -> 9

Unsigned(s) == IF Len(s) > 0 /\ s[1] \in {"-", "+"} THEN Tail(s) ELSE s

IsIntLiteral(s) ==
    /\ Len(Unsigned(s)) > 0
    /\ \A i \in 1..Len(Unsigned(s)) : Unsigned(s)[i] \in Digits

RECURSIVE DigitsValue(_)
DigitsValue(s) ==
    IF Len(s) = 0 THEN 0
    ELSE 10 * DigitsValue(SubSeq(s, 1, Len(s) - 1)) + DigitValue(s[Len(s)])

IntValue(s) ==
    IF Len(s) > 0 /\ s[1] = "-" THEN 0 - DigitsValue(Unsigned(s))
    ELSE DigitsValue(Unsigned(s))

\* The ValueError int() raises on a string that is no integer literal.
IntError(s) ==
    [kind |-> "ValueError", at |-> "int",
     msg |-> <<"invalid literal for int() with base 10: ", s>>]

---------------------------------------------------------------------------
(* urllib.parse: the request target is kept split into its path and its    *)
(* query; a query is, per parameter, the list of values given for it       *)
(* (empty: the parameter does not occur).                                  *)

NoQuery == [type |-> <<>>, count |-> <<>>, locale |-> <<>>]

urlparse(target) == [path |-> target.path, query |-> target.query]

\* parse_qs(query) with keep_blank_values left False: a blank value is
\* dropped, and a parameter left with no value is not in the result.
NonBlank(values, blank) == SelectSeq(values, LAMBDA v : v # blank)

parse_qs(query) ==
    [type   |-> NonBlank(query.type, ""),
     count  |-> NonBlank(query.count, <<>>),
     locale |-> NonBlank(query.locale, "")]

\* params.get(key, [default])[0]
ParamGet(values, default) == IF values = <<>> THEN default ELSE values[1]

---------------------------------------------------------------------------
(* The data-generation backend (the Faker library, outside the repository) *)
(*                                                                         *)
(* Taken from the backend:                                                 *)
(*  - Faker(locale) raises AttributeError for a locale it does not know;   *)
(*  - self.fake.<name> raises AttributeError when the providers of the     *)
(*    locale have no method <name>;                                        *)
(*  - latitude() and longitude() return decimal.Decimal, date_time()       *)
(*    returns datetime, date_of_birth() returns date, random_int() and     *)
(*    random_digit() return int, every other method named by the           *)
(*    repository returns str;                                              *)
(*  - a producer call may fail (the environment decides whether, and with  *)
(*    which kind of exception).                                            *)
(* Locales are classes of locale strings: the default, one more locale the *)
(* backend supports in full, one it knows but whose providers lack a       *)
(* method the dispatch table names, and one it does not know.              *)

DefaultLocale == "en_US"
FullLocale == "loc_full"
PartialLocale == "loc_partial"
UnknownLocale == "loc_unknown"

BackendLocales == {DefaultLocale, FullLocale, PartialLocale}

MissingMethods(locale) == IF locale = PartialLocale THEN {"zipcode"} ELSE {}

FakerReturns(call) ==
    CASE call \in {"latitude", "longitude"}     -> "Decimal"
      [] call = "date_time"                     -> "datetime"
      [] call = "date_of_birth"                 -> "date"
      [] call \in {"random_int", "random_digit"} -> "int"
      [] OTHER                                  -> "str"

\* Kinds of exception a failing producer call raises: one that is a
\* ValueError (a subclass of it) and one that is not.
ProducerFaults == {"UnicodeDecodeError", "RuntimeError"}

\* isinstance(e, ValueError)
IsValueError(kind) == kind \in {"ValueError", "UnicodeDecodeError"}

\* The value the random source of generator gen yields at its n-th draw.
Draw(gen, n) == (gen.seed + n) % NumValues

\* One value returned by self.fake.<call>(), then post-processed by the
\* lambda that wraps the call (.isoformat(), str()) when there is one.
FakeValue(gen, call, post, n) ==
    [call |-> call, locale |-> gen.locale, v |-> Draw(gen, n),
     py |-> IF post = "none" THEN FakerReturns(call) ELSE "str"]

---------------------------------------------------------------------------
(* fake_data.py: FakeDataGenerator *)

NoGenerator == [locale |-> "", seed |-> 0, live |-> FALSE, by |-> -1]

\* FakeDataGenerator.__init__: self.fake = Faker(locale)
\* (by: history, the worker whose request built the object)
NewGenerator(locale, seed, by) ==
    [locale |-> locale, seed |-> seed, live |-> TRUE, by |-> by]

FakerInitError(locale) ==
    [kind |-> "AttributeError", at |-> "Faker",
     msg |-> <<"Invalid configuration for faker locale ", locale>>]

\* The three forms of a dispatch-table entry: a bound method of self.fake,
\* a lambda around a call of self.fake, a bound method of the generator.
Attr(call) == [owner |-> "fake", call |-> call, post |-> "none"]
Lambda(call, post) == [owner |-> "lambda", call |-> call, post |-> post]
Method(call) == [owner |-> "self", call |-> call, post |-> "none"]

generator_map ==
    [
     name                 |-> Attr("name"),
     first_name           |-> Attr("first_name"),
     last_name            |-> Attr("last_name"),
     email                |-> Attr("email"),
     phone                |-> Attr("phone_number"),
     ssn                  |-> Attr("ssn"),
     username             |-> Attr("user_name"),
     password             |-> Attr("password"),
     address              |-> Attr("address"),
     street_address       |-> Attr("street_address"),
     city                 |-> Attr("city"),
     state                |-> Attr("state"),
     zipcode              |-> Attr("zipcode"),
     country              |-> Attr("country"),
     latitude             |-> Attr("latitude"),
     longitude            |-> Attr("longitude"),
     company              |-> Attr("company"),
     job                  |-> Attr("job"),
     company_email        |-> Attr("company_email"),
     url                  |-> Attr("url"),
     domain_name          |-> Attr("domain_name"),
     ipv4                 |-> Attr("ipv4"),
     ipv6                 |-> Attr("ipv6"),
     mac_address          |-> Attr("mac_address"),
     user_agent           |-> Attr("user_agent"),
     text                 |-> Attr("text"),
     sentence             |-> Attr("sentence"),
     paragraph            |-> Attr("paragraph"),
     word                 |-> Attr("word"),
     date                 |-> Lambda("date", "none"),
     time                 |-> Lambda("time", "none"),
     datetime             |-> Lambda("date_time", "isoformat"),
     year                 |-> Attr("year"),
     random_int           |-> Lambda("random_int", "none"),
     random_digit         |-> Attr("random_digit"),
     credit_card_number   |-> Attr("credit_card_number"),
     credit_card_provider |-> Attr("credit_card_provider"),
     credit_card_expire   |-> Attr("credit_card_expire"),
     currency_code        |-> Attr("currency_code"),
     currency_name        |-> Attr("currency_name"),
     file_name            |-> Attr("file_name"),
     file_extension       |-> Attr("file_extension"),
     mime_type            |-> Attr("mime_type"),
     color_name           |-> Attr("color_name"),
     hex_color            |-> Attr("hex_color"),
     rgb_color            |-> Attr("rgb_color"),
     uuid4                |-> Lambda("uuid4", "str"),
     profile              |-> Method("generate_profile"),
     user                 |-> Method("generate_user")
    ]

\* The attributes of self.fake the dict literal reads when it is built
\* (the lambdas read theirs only when called).
MapAttributes ==
    {generator_map[k].call : k \in {x \in DOMAIN generator_map : generator_map[x].owner = "fake"}}

MapBuildError(locale) ==
    [kind |-> "AttributeError", at |-> "generator_map",
     msg |-> <<"'Generator' object has no attribute ", CHOOSE m \in MissingMethods(locale) : TRUE>>]

\* Mutant of Lookup: a key the table lacks falls back to the default type.
LookupWithDefault(data_type) ==
    IF data_type \in DOMAIN generator_map THEN generator_map[data_type]
    ELSE generator_map["name"]

\* generator_map.get(data_type): None for a key the table lacks.
Lookup(data_type) ==
    IF data_type \in DOMAIN generator_map THEN generator_map[data_type] ELSE Method("None")

UnknownType(data_type) ==
    [kind |-> "ValueError", at |-> "lookup",
     msg |-> <<"Unknown data type: ", data_type>>]

Scalar(value) == [shape |-> "scalar", value |-> value]
Object(fields) == [shape |-> "object", value |-> fields]

\* generate_profile: the i-th profile the generator produces
generate_profile(gen, i) ==
    Object([username  |-> FakeValue(gen, "user_name", "none", i),
            name      |-> FakeValue(gen, "name", "none", i + 1),
            email     |-> FakeValue(gen, "email", "none", i + 2),
            phone     |-> FakeValue(gen, "phone_number", "none", i + 3),
            address   |-> FakeValue(gen, "address", "none", i + 4),
            job       |-> FakeValue(gen, "job", "none", i + 5),
            company   |-> FakeValue(gen, "company", "none", i + 6),
            birthdate |-> FakeValue(gen, "date_of_birth", "isoformat", i + 7),
            website   |-> FakeValue(gen, "url", "none", i + 8)])

\* generate_user: the i-th user the generator produces
generate_user(gen, i) ==
    Object([id         |-> FakeValue(gen, "random_int", "none", i),
            username   |-> FakeValue(gen, "user_name", "none", i + 1),
            email      |-> FakeValue(gen, "email", "none", i + 2),
            name       |-> FakeValue(gen, "name", "none", i + 3),
            created_at |-> FakeValue(gen, "date_time", "isoformat", i + 4)])

\* generator(): the i-th invocation of the producer found by the lookup
Produce(gen, entry, i) ==
    CASE entry.call = "generate_profile" -> generate_profile(gen, i)
      [] entry.call = "generate_user"    -> generate_user(gen, i)
      [] OTHER -> Scalar(FakeValue(gen, entry.call, entry.post, i))

\* [generator() for _ in range(count)], its first n invocations
Produced(gen, entry, n) == [i \in 1..n |-> Produce(gen, entry, i)]

\* FakeDataGenerator.get_available_types
get_available_types ==
    <<"name", "first_name", "last_name", "email", "phone",
      "ssn", "username", "password", "address", "street_address",
      "city", "state", "zipcode", "country", "latitude",
      "longitude", "company", "job", "company_email", "url",
      "domain_name", "ipv4", "ipv6", "mac_address", "user_agent",
      "text", "sentence", "paragraph", "word", "date",
      "time", "datetime", "year", "random_int", "random_digit",
      "credit_card_number", "credit_card_provider", "credit_card_expire", "currency_code", "currency_name",
      "file_name", "file_extension", "mime_type", "color_name", "hex_color",
      "rgb_color", "uuid4", "profile", "user">>

---------------------------------------------------------------------------
(* api_handler.py: responses *)

\* send_response, send_header and end_headers: the status line and the
\* headers, flushed to the connection as one block.
HeadChunk(status_code, content_type, cors) ==
    [chunk |-> "head", status |-> status_code, content_type |-> content_type,
     cors |-> cors]

BodyChunk(payload) == [chunk |-> "body", payload |-> payload]

\* json.dumps: whether the encoder accepts a value of that Python type
JSONable(py) == py \in {"str", "int"}

Serialisable(item) ==
    IF item.shape = "scalar" THEN JSONable(item.value.py)
    ELSE \A f \in DOMAIN item.value : JSONable(item.value[f].py)

JsonTypeError ==
    [kind |-> "TypeError", at |-> "json.dumps",
     msg |-> <<"Object is not JSON serializable">>]

\* send_error_response(status_code, message), whose envelope always encodes
send_error_response(status_code, message) ==
    <<HeadChunk(status_code, "application/json", TRUE),
      BodyChunk([success |-> FALSE, error |-> message])>>

\* The except clauses of handle_generate
ExceptResponse(exc) ==
    IF IsValueError(exc.kind)
    THEN send_error_response(400, exc.msg)
    ELSE send_error_response(500, <<"Internal server error">>)

\* Mutant of ResponseData: the list is returned whatever the count.
ResponseDataAlwaysList(data, count) == [is_list |-> TRUE, items |-> data]

\* data if count > 1 else data[0]
ResponseData(data, count) ==
    IF count > 1 THEN [is_list |-> TRUE, items |-> data]
    ELSE [is_list |-> FALSE, items |-> <<data[1]>>]

GenerateEnvelope(f) ==
    [success |-> TRUE, type |-> f.data_type, count |-> f.count,
     data |-> ResponseData(f.data, f.count)]

\* Mutant of TypesEnvelope: the composite types are left out of the listing.
TypesEnvelopeScalarsOnly(types) ==
    [success |-> TRUE,
     count |-> Len(SelectSeq(types, LAMBDA k : k \notin {"profile", "user"})),
     types |-> SelectSeq(types, LAMBDA k : k \notin {"profile", "user"})]

TypesEnvelope(types) == [success |-> TRUE, count |-> Len(types), types |-> types]

HealthEnvelope == [success |-> TRUE, status |-> "healthy", service |-> "fake-data-api"]

JsonResponse(status_code, envelope) ==
    <<HeadChunk(status_code, "application/json", TRUE), BodyChunk(envelope)>>

HtmlResponse(status_code, html) ==
    <<HeadChunk(status_code, "text/html", FALSE), BodyChunk([html |-> html])>>

---------------------------------------------------------------------------
(* api_handler.py: do_GET *)

\* The handler do_GET chooses for a path
Route(p) ==
    CASE p = "/api/generate" -> "handle_generate"
      [] p = "/api/types"    -> "handle_types"
      [] p = "/api/health"   -> "handle_health"
      [] p \in {"/", "/api", "/api/"} -> "handle_root"
      [] OTHER -> "not_found"

\* Mutant of RouteOf: the whole request target is matched, query included.
RouteOfTarget(target) ==
    IF target.query = NoQuery THEN Route(target.path) ELSE "not_found"

RouteOf(target) == Route(urlparse(target).path)

NoTarget == [path |-> "", query |-> NoQuery]

NoException == [kind |-> "", at |-> "", msg |-> <<>>]

EmptyFrame ==
    [data_type |-> "", count |-> 0, locale |-> "", generator |-> -1, data |-> <<>>]

\* The class-level FakeDataGenerator(), built when the class is defined
ClassGenerator == 0

\* Mutant of CountInRange: the lower bound is not checked.
CountInRangeUpperOnly(count) == ~(count > MaxCount)

CountInRange(count) == ~(count < MinCount \/ count > MaxCount)

\* An exception reaches the except clauses: the error response is written
\* and the handler returns.
Raise(t, exc) ==
    /\ wfile' = [wfile EXCEPT ![t] = @ \o ExceptResponse(exc)]
    /\ raised' = [raised EXCEPT ![t] = exc]
    /\ pc' = [pc EXCEPT ![t] = "done"]

\* The handler writes a complete response and returns.
Reply(t, chunks) ==
    /\ wfile' = [wfile EXCEPT ![t] = @ \o chunks]
    /\ pc' = [pc EXCEPT ![t] = "done"]

\* A connection is accepted and a worker thread starts on its request.
Receive(t, offered) ==
    /\ pc[t] = "idle"
    /\ \E target \in offered : path' = [path EXCEPT ![t] = target]
    /\ pc' = [pc EXCEPT ![t] = "do_GET"]
    /\ UNCHANGED <<frame, wfile, heap, invoked, raised>>

\* The handler has returned: the worker thread ends, and its request's
\* objects with it.
Finish(t) ==
    /\ pc[t] = "done"
    /\ pc' = [pc EXCEPT ![t] = "idle"]
    /\ path' = [path EXCEPT ![t] = NoTarget]
    /\ frame' = [frame EXCEPT ![t] = EmptyFrame]
    /\ wfile' = [wfile EXCEPT ![t] = <<>>]
    /\ heap' = [heap EXCEPT ![t] = NoGenerator]
    /\ invoked' = [invoked EXCEPT ![t] = <<>>]
    /\ raised' = [raised EXCEPT ![t] = NoException]

not_found(t) ==
    /\ pc[t] = "do_GET"
    /\ RouteOf(path[t]) = "not_found"
    /\ Reply(t, send_error_response(404, <<"Endpoint not found: ", urlparse(path[t]).path>>))
    /\ UNCHANGED <<path, frame, heap, invoked, raised>>

handle_types(t) ==
    /\ pc[t] = "do_GET"
    /\ RouteOf(path[t]) = "handle_types"
    /\ heap[ClassGenerator].live
    /\ Reply(t, JsonResponse(200, TypesEnvelope(get_available_types)))
    /\ UNCHANGED <<path, frame, heap, invoked, raised>>

handle_health(t) ==
    /\ pc[t] = "do_GET"
    /\ RouteOf(path[t]) = "handle_health"
    /\ Reply(t, JsonResponse(200, HealthEnvelope))
    /\ UNCHANGED <<path, frame, heap, invoked, raised>>

handle_root(t) ==
    /\ pc[t] = "do_GET"
    /\ RouteOf(path[t]) = "handle_root"
    /\ Reply(t, HtmlResponse(200, "Fake Data Generator API"))
    /\ UNCHANGED <<path, frame, heap, invoked, raised>>

---------------------------------------------------------------------------
(* api_handler.py: handle_generate, one action per statement that can end  *)
(* the handler                                                             *)

\* lines 43-49: read the parameters; int() may raise ValueError
ParseParams(t) ==
    /\ pc[t] = "do_GET"
    /\ RouteOf(path[t]) = "handle_generate"
    /\ LET params == parse_qs(urlparse(path[t]).query)
           data_type == ParamGet(params.type, "name")
           count == ParamGet(params.count, <<"1">>)
           locale == ParamGet(params.locale, DefaultLocale)
       IN  IF IsIntLiteral(count)
           THEN /\ frame' = [frame EXCEPT ![t] =
                       [@ EXCEPT !.data_type = data_type, !.count = IntValue(count),
                                 !.locale = locale]]
                /\ pc' = [pc EXCEPT ![t] = "validate"]
                /\ UNCHANGED <<wfile, raised>>
           ELSE /\ frame' = [frame EXCEPT ![t] = [@ EXCEPT !.data_type = data_type]]
                /\ Raise(t, IntError(count))
    /\ UNCHANGED <<path, heap, invoked>>

\* lines 52-54: the range check
ValidateCount(t) ==
    /\ pc[t] = "validate"
    /\ IF CountInRange(frame[t].count)
       THEN /\ pc' = [pc EXCEPT ![t] = "build"]
            /\ UNCHANGED wfile
       ELSE Reply(t, send_error_response(400, <<"Count must be between 1 and 100">>))
    /\ UNCHANGED <<path, frame, heap, invoked, raised>>

\* Mutant of BuildGenerator: the request rebinds the class-level generator
\* to its locale and generates from it.
BuildSharedGenerator(t) ==
    /\ pc[t] = "build"
    /\ IF frame[t].locale \in BackendLocales
       THEN /\ \E seed \in 0..(NumValues - 1) :
                  heap' = [heap EXCEPT ![ClassGenerator] =
                              NewGenerator(frame[t].locale, seed, ClassGenerator)]
            /\ frame' = [frame EXCEPT ![t] = [@ EXCEPT !.generator = ClassGenerator]]
            /\ pc' = [pc EXCEPT ![t] = "generate"]
            /\ UNCHANGED <<wfile, raised>>
       ELSE /\ Raise(t, FakerInitError(frame[t].locale))
            /\ UNCHANGED <<heap, frame>>
    /\ UNCHANGED <<path, invoked>>

\* line 57: generator = FakeDataGenerator(locale=locale), an object of the
\* request's own
BuildGenerator(t) ==
    /\ pc[t] = "build"
    /\ IF frame[t].locale \in BackendLocales
       THEN /\ \E seed \in 0..(NumValues - 1) :
                  heap' = [heap EXCEPT ![t] = NewGenerator(frame[t].locale, seed, t)]
            /\ frame' = [frame EXCEPT ![t] = [@ EXCEPT !.generator = t]]
            /\ pc' = [pc EXCEPT ![t] = "generate"]
            /\ UNCHANGED <<wfile, raised>>
       ELSE /\ Raise(t, FakerInitError(frame[t].locale))
            /\ UNCHANGED <<heap, frame>>
    /\ UNCHANGED <<path, invoked>>

\* line 58, generator.generate(data_type, count) with every producer call
\* returning: the table is built, the producer looked up and called count
\* times
Generate(t) ==
    /\ pc[t] = "generate"
    /\ LET gen == heap[frame[t].generator]
           entry == Lookup(frame[t].data_type)
       IN  IF MissingMethods(gen.locale) \cap MapAttributes # {}
           THEN Raise(t, MapBuildError(gen.locale)) /\ UNCHANGED <<frame, invoked>>
           ELSE IF entry = Method("None")
           THEN Raise(t, UnknownType(frame[t].data_type)) /\ UNCHANGED <<frame, invoked>>
           ELSE /\ frame' = [frame EXCEPT ![t] =
                       [@ EXCEPT !.data = Produced(gen, entry, frame[t].count)]]
                /\ invoked' = [invoked EXCEPT ![t] = Produced(gen, entry, frame[t].count)]
                /\ pc' = [pc EXCEPT ![t] = "respond"]
                /\ UNCHANGED <<wfile, raised>>
    /\ UNCHANGED <<path, heap>>

ProducerError(kind, call) ==
    [kind |-> kind, at |-> "producer", msg |-> <<"failure inside producer ", call>>]

\* line 58 again: the k-th producer call raises
GenerateFails(t) ==
    /\ pc[t] = "generate"
    /\ LET gen == heap[frame[t].generator]
           entry == Lookup(frame[t].data_type)
       IN  /\ MissingMethods(gen.locale) \cap MapAttributes = {}
           /\ entry # Method("None")
           /\ \E k \in 1..frame[t].count, kind \in ProducerFaults :
                /\ invoked' = [invoked EXCEPT ![t] = Produced(gen, entry, k - 1)]
                /\ Raise(t, ProducerError(kind, entry.call))
    /\ UNCHANGED <<path, frame, heap>>

\* lines 61-67 and send_json_response lines 207-210: the envelope is built,
\* the status line and the headers are sent
SendHead(t) ==
    /\ pc[t] = "respond"
    /\ wfile' = [wfile EXCEPT ![t] = Append(@, HeadChunk(200, "application/json", TRUE))]
    /\ pc' = [pc EXCEPT ![t] = "encode"]
    /\ UNCHANGED <<path, frame, heap, invoked, raised>>

\* send_json_response line 211: json.dumps(data), still inside the try
\* block of handle_generate, then the body is written
EncodeBody(t) ==
    /\ pc[t] = "encode"
    /\ IF \A i \in 1..Len(frame[t].data) : Serialisable(frame[t].data[i])
       THEN /\ Reply(t, <<BodyChunk(GenerateEnvelope(frame[t]))>>)
            /\ UNCHANGED raised
       ELSE Raise(t, JsonTypeError)
    /\ UNCHANGED <<path, frame, heap, invoked>>

---------------------------------------------------------------------------
(* The requests offered *)

Chars == {"0", "1", "-", "a"}

RECURSIVE StringsOfLen(_)
StringsOfLen(n) ==
    IF n = 0 THEN {<<>>}
    ELSE {Append(s, c) : s \in StringsOfLen(n - 1), c \in Chars}

\* Every count value of at most MaxLen characters, the blank one included
CountValues == UNION {StringsOfLen(n) : n \in 0..MaxLen}

TypeValues == DOMAIN generator_map \cup {"not_a_real_type", "Name", ""}

\* A scalar type, the two composite types, a type whose values are Decimal,
\* a type the table lacks, a blank type
FewTypes == {"email", "profile", "user", "latitude", "not_a_real_type", ""}

FewCounts == {<<"1">>, <<"1", "0">>, <<"0">>}

LocaleValues == {FullLocale, PartialLocale, UnknownLocale}

Occurrences(values) == {<<>>} \cup {<<v>> : v \in values}

\* Every type with a few counts, and a few types with every count
Queries ==
    [type : Occurrences(TypeValues), count : Occurrences(FewCounts),
     locale : Occurrences(LocaleValues)]
      \cup [type : Occurrences(FewTypes), count : Occurrences(CountValues),
            locale : Occurrences(LocaleValues)]

SampleQuery == [type |-> <<"user">>, count |-> <<<<"1", "0">>>>, locale |-> <<>>]

Paths ==
    {"/api/generate", "/api/types", "/api/health", "/", "/api", "/api/",
     "/api/generate/", "/api/healthz", "/unknown/path", "/API/health", ""}

Targets ==
    {[path |-> "/api/generate", query |-> q] : q \in Queries}
      \cup [path : Paths, query : {NoQuery, SampleQuery}]

\* The requests of the concurrent specification
ConcQueries ==
    {[type |-> <<"name">>, count |-> <<<<"2">>>>, locale |-> <<FullLocale>>],
     [type |-> <<"user">>, count |-> <<>>, locale |-> <<>>],
     [type |-> <<"not_a_real_type">>, count |-> <<<<"1">>>>, locale |-> <<>>],
     [type |-> <<"email">>, count |-> <<<<"0">>>>, locale |-> <<FullLocale>>],
     [type |-> <<"email">>, count |-> <<<<"a">>>>, locale |-> <<>>],
     [type |-> <<"email">>, count |-> <<>>, locale |-> <<UnknownLocale>>]}

ConcTargets ==
    {[path |-> "/api/generate", query |-> q] : q \in ConcQueries}
      \cup [path : {"/api/types", "/api/health", "/", "/unknown/path"}, query : {NoQuery}]

---------------------------------------------------------------------------
(* Specifications *)

InitWith(W) ==
    /\ pc = [t \in W |-> "idle"]
    /\ path = [t \in W |-> NoTarget]
    /\ frame = [t \in W |-> EmptyFrame]
    /\ wfile = [t \in W |-> <<>>]
    /\ heap = [g \in W \cup {ClassGenerator} |->
                 IF g = ClassGenerator THEN NewGenerator(DefaultLocale, 0, ClassGenerator)
                 ELSE NoGenerator]
    /\ invoked = [t \in W |-> <<>>]
    /\ raised = [t \in W |-> NoException]

\* One worker: requests are handled strictly one after another.
Init == InitWith({1})

Next ==
    \/ \E t \in Workers : Receive(t, Targets)
    \/ \E t \in Workers : not_found(t)
    \/ \E t \in Workers : handle_types(t)
    \/ \E t \in Workers : handle_health(t)
    \/ \E t \in Workers : handle_root(t)
    \/ \E t \in Workers : ParseParams(t)
    \/ \E t \in Workers : ValidateCount(t)
    \/ \E t \in Workers : BuildGenerator(t)
    \/ \E t \in Workers : Generate(t)
    \/ \E t \in Workers : GenerateFails(t)
    \/ \E t \in Workers : SendHead(t)
    \/ \E t \in Workers : EncodeBody(t)
    \/ \E t \in Workers : Finish(t)

Spec == Init /\ [][Next]_vars

\* NumWorkers workers: requests are handled concurrently, in any interleaving.
ConcInit == InitWith(1..NumWorkers)

ConcNext ==
    \/ \E t \in Workers : Receive(t, ConcTargets)
    \/ \E t \in Workers : not_found(t)
    \/ \E t \in Workers : handle_types(t)
    \/ \E t \in Workers : handle_health(t)
    \/ \E t \in Workers : handle_root(t)
    \/ \E t \in Workers : ParseParams(t)
    \/ \E t \in Workers : ValidateCount(t)
    \/ \E t \in Workers : BuildGenerator(t)
    \/ \E t \in Workers : Generate(t)
    \/ \E t \in Workers : GenerateFails(t)
    \/ \E t \in Workers : SendHead(t)
    \/ \E t \in Workers : EncodeBody(t)
    \/ \E t \in Workers : Finish(t)

ConcSpec == ConcInit /\ [][ConcNext]_vars

---------------------------------------------------------------------------
(* What a request asked for, and what its worker answered *)

RequestedType(t) == ParamGet(parse_qs(urlparse(path[t]).query).type, "name")
RequestedCount(t) == ParamGet(parse_qs(urlparse(path[t]).query).count, <<"1">>)
RequestedLocale(t) == ParamGet(parse_qs(urlparse(path[t]).query).locale, DefaultLocale)

\* The count parameter is an integer in [1, 100]
ValidCount(t) ==
    /\ IsIntLiteral(RequestedCount(t))
    /\ IntValue(RequestedCount(t)) >= 1
    /\ IntValue(RequestedCount(t)) <= 100

\* The handler of worker t has returned from a request to /api/generate
Generated(t) == pc[t] = "done" /\ urlparse(path[t]).path = "/api/generate"

\* The backend builds a generator for the locale and has every method the
\* dispatch table names
BackendAccepts(locale) == locale \in BackendLocales /\ MissingMethods(locale) = {}

\* Worker t wrote exactly one status line with its headers, then one body
OneResponse(t) ==
    /\ Len(wfile[t]) = 2
    /\ wfile[t][1].chunk = "head"
    /\ wfile[t][2].chunk = "body"

\* The response is HTTP 200 with a success:true envelope
Success(t) ==
    /\ OneResponse(t)
    /\ wfile[t][1] = HeadChunk(200, "application/json", TRUE)
    /\ wfile[t][2].payload.success = TRUE

\* The response is the error envelope with that status and message
ErrorIs(t, status_code, message) ==
    wfile[t] = <<HeadChunk(status_code, "application/json", TRUE),
                 BodyChunk([success |-> FALSE, error |-> message])>>

\* The response is an error envelope with that status, whatever its message
ErrorStatus(t, status_code) ==
    /\ OneResponse(t)
    /\ wfile[t][1] = HeadChunk(status_code, "application/json", TRUE)
    /\ wfile[t][2].payload.success = FALSE

HeadsWritten(t) == Cardinality({i \in 1..Len(wfile[t]) : wfile[t][i].chunk = "head"})

---------------------------------------------------------------------------
(* Claims *)

\* C1: a request to /api/generate with count=c, a catalog type and a locale
\* the backend accepts (no producer call failing) succeeds (HTTP 200,
\* success:true) if and only if 1 <= c <= 100; every other integer, and
\* every count that is no integer, gets HTTP 400 with success:false, with
\* the message "Count must be between 1 and 100" for an integer out of
\* range; an absent count behaves as count=1.
C1_CountBounds ==
    \A t \in Workers : Generated(t) =>
        /\ (/\ IsIntLiteral(RequestedCount(t))
            /\ RequestedType(t) \in DOMAIN generator_map
            /\ BackendAccepts(RequestedLocale(t))
            /\ raised[t].at # "producer")
           => (Success(t) <=> ValidCount(t))
        /\ ~IsIntLiteral(RequestedCount(t)) => ErrorStatus(t, 400)
        /\ (IsIntLiteral(RequestedCount(t)) /\ ~ValidCount(t))
           => ErrorIs(t, 400, <<"Count must be between 1 and 100">>)

\* C2: in every successful /api/generate response with count c, data is the
\* bare item when c = 1 and, when c > 1, the sequence of exactly c items
\* whose i-th element is what the i-th producer call returned; the count
\* field is c and the type field is the requested type.
C2_Cardinality ==
    \A t \in Workers : (Generated(t) /\ Success(t)) =>
        LET env == wfile[t][2].payload
            c == IntValue(RequestedCount(t))
        IN  /\ env.type = RequestedType(t)
            /\ env.count = c
            /\ Len(invoked[t]) = c
            /\ c = 1 => (~env.data.is_list /\ env.data.items = <<invoked[t][1]>>)
            /\ c > 1 => (/\ env.data.is_list
                         /\ Len(env.data.items) = c
                         /\ \A i \in 1..c : env.data.items[i] = invoked[t][i])

\* A successful response carries a list in which a value occurs twice and
\* a larger value precedes a smaller one: nothing was deduplicated or sorted.
C2_Witness ==
    \E t \in Workers :
        /\ Generated(t) /\ Success(t)
        /\ wfile[t][2].payload.data.is_list
        /\ LET items == wfile[t][2].payload.data.items
           IN  /\ Len(items) = 10
               /\ items[1].shape = "scalar"
               /\ items[1] = items[3]
               /\ items[1].value.v > items[2].value.v

\* C3: with requests handled concurrently in any interleaving, each response
\* is determined by its own request: the type and count echoed, the length
\* of data and the locale of every item are those the request asked for;
\* the generator a handler uses was built by its own request and is not the
\* class-level one, which no request changes; /api/health always answers
\* the fixed healthy envelope and /api/types the catalog.
C3_NoCrossTalk ==
    \A t \in Workers :
        /\ (pc[t] = "done" /\ urlparse(path[t]).path = "/api/health")
           => wfile[t] = JsonResponse(200, HealthEnvelope)
        /\ (pc[t] = "done" /\ urlparse(path[t]).path = "/api/types")
           => wfile[t] = JsonResponse(200, TypesEnvelope(get_available_types))
        /\ heap[ClassGenerator] = NewGenerator(DefaultLocale, 0, ClassGenerator)
        /\ frame[t].generator # -1
           => /\ frame[t].generator # ClassGenerator
              /\ heap[frame[t].generator].by = t
              /\ heap[frame[t].generator].locale = RequestedLocale(t)
        /\ \A i \in 1..Len(frame[t].data) :
              IF frame[t].data[i].shape = "scalar"
              THEN frame[t].data[i].value.locale = RequestedLocale(t)
              ELSE \A f \in DOMAIN frame[t].data[i].value :
                      frame[t].data[i].value[f].locale = RequestedLocale(t)
        /\ (Generated(t) /\ Success(t))
           => LET env == wfile[t][2].payload
              IN  /\ env.type = RequestedType(t)
                  /\ env.count = IntValue(RequestedCount(t))
                  /\ Len(env.data.items) = IntValue(RequestedCount(t))
                  /\ env.data.items = IF env.data.is_list THEN frame[t].data
                                      ELSE <<frame[t].data[1]>>

\* Two requests with different locales and counts are in flight together,
\* one answered with success while the other still holds its generator.
C3_Witness ==
    \E t, u \in Workers :
        /\ t # u
        /\ Generated(t) /\ Success(t)
        /\ pc[u] = "respond"
        /\ RequestedLocale(t) # RequestedLocale(u)
        /\ IntValue(RequestedCount(t)) # IntValue(RequestedCount(u))

\* C4 as stated: every /api/generate request with a valid count whose type
\* is not a key of the catalog gets HTTP 400 with the message
\* "Unknown data type: {type}", and no producer is invoked.
C4_UnknownTypeAnyLocale ==
    \A t \in Workers :
        (Generated(t) /\ ValidCount(t) /\ RequestedType(t) \notin DOMAIN generator_map)
        => /\ ErrorIs(t, 400, <<"Unknown data type: ", RequestedType(t)>>)
           /\ invoked[t] = <<>>

\* C4 amended: the same, for a locale the backend accepts; for any locale
\* no producer is invoked.
C4_UnknownType ==
    \A t \in Workers :
        (Generated(t) /\ ValidCount(t) /\ RequestedType(t) \notin DOMAIN generator_map)
        => /\ BackendAccepts(RequestedLocale(t))
              => ErrorIs(t, 400, <<"Unknown data type: ", RequestedType(t)>>)
           /\ invoked[t] = <<>>

C4_Witness ==
    \E t \in Workers :
        /\ Generated(t) /\ ValidCount(t)
        /\ RequestedType(t) = "not_a_real_type"
        /\ RequestedLocale(t) = FullLocale
        /\ IntValue(RequestedCount(t)) = 100
        /\ ErrorIs(t, 400, <<"Unknown data type: ", "not_a_real_type">>)

\* C5: the names /api/types returns are exactly the keys of the dispatch
\* table of /api/generate, and a request for any of them with a valid count
\* (a locale the backend accepts, no producer call failing) gets a success
\* response, never UnknownType or another error.
C5_CatalogComplete ==
    /\ {get_available_types[i] : i \in 1..Len(get_available_types)} = DOMAIN generator_map
    /\ \A t \in Workers :
        (/\ Generated(t) /\ ValidCount(t)
         /\ RequestedType(t) \in {get_available_types[i] : i \in 1..Len(get_available_types)}
         /\ BackendAccepts(RequestedLocale(t))
         /\ raised[t].at # "producer")
        => Success(t)

\* C6: a failure raised while a producer is invoked, of whatever kind and
\* at whichever call, gets HTTP 500 with the body {success:false,
\* error:"Internal server error"}: never 400, never the failure's message.
C6_ProducerFailureIs500 ==
    \A t \in Workers :
        (Generated(t) /\ raised[t].at = "producer")
        => ErrorIs(t, 500, <<"Internal server error">>)

\* C7: routing looks at the path alone, by exact match: a path that is none
\* of /api/generate, /api/types, /api/health, /, /api, /api/ gets HTTP 404
\* with "Endpoint not found: {path}" and builds no generator and invokes no
\* producer; the fixed routes answer the same with or without a query.
C7_Routing ==
    \A t \in Workers : pc[t] \notin {"idle", "do_GET"} =>
        LET p == path[t].path
        IN  /\ p \notin {"/api/generate", "/api/types", "/api/health", "/", "/api", "/api/"}
               => /\ pc[t] = "done"
                  /\ ErrorIs(t, 404, <<"Endpoint not found: ", p>>)
                  /\ frame[t] = EmptyFrame
                  /\ heap[t] = NoGenerator
                  /\ invoked[t] = <<>>
            /\ p = "/api/health" => wfile[t] = JsonResponse(200, HealthEnvelope)
            /\ p = "/api/types"
               => wfile[t] = JsonResponse(200, TypesEnvelope(get_available_types))
            /\ p \in {"/", "/api", "/api/"}
               => wfile[t] = HtmlResponse(200, "Fake Data Generator API")
            /\ p = "/api/generate" => frame[t].data_type = RequestedType(t)

\* A near miss of a route, carrying a query that asks for data, gets 404.
C7_Witness ==
    \E t \in Workers :
        /\ pc[t] = "done"
        /\ path[t] = [path |-> "/api/generate/", query |-> SampleQuery]
        /\ ErrorIs(t, 404, <<"Endpoint not found: ", "/api/generate/">>)

\* C8 as stated: the catalog is a fixed set of exactly 48 type names, 2 of
\* them composite, and the count field of /api/types is that size.
C8_Catalog48 ==
    \A t \in Workers :
        (pc[t] = "done" /\ urlparse(path[t]).path = "/api/types")
        => /\ Cardinality(DOMAIN generator_map) = 48
           /\ wfile[t][2].payload.count = Cardinality(DOMAIN generator_map)

\* C8 amended: the catalog is a fixed set of exactly 49 type names, 2 of
\* them composite (profile, user); every /api/types response lists it with
\* count 49, and only its names are ever dispatched to a producer.
C8_Catalog ==
    \A t \in Workers :
        /\ (pc[t] = "done" /\ urlparse(path[t]).path = "/api/types")
           => /\ Cardinality(DOMAIN generator_map) = 49
              /\ {k \in DOMAIN generator_map : generator_map[k].owner = "self"}
                   = {"profile", "user"}
              /\ OneResponse(t)
              /\ wfile[t][2].payload.count = Cardinality(DOMAIN generator_map)
              /\ Len(wfile[t][2].payload.types) = Cardinality(DOMAIN generator_map)
              /\ {wfile[t][2].payload.types[i] : i \in 1..Len(wfile[t][2].payload.types)}
                   = DOMAIN generator_map
        /\ invoked[t] # <<>> => frame[t].data_type \in DOMAIN generator_map

C8_Witness ==
    \E t \in Workers :
        /\ pc[t] = "done"
        /\ path[t].path = "/api/types"
        /\ Success(t)
        /\ wfile[t][2].payload.count = 49

\* C9: once the success response has begun to be written (status line and
\* headers sent), the handler never enters the error path: one status line
\* and one envelope are written per request, and a 200 status is never
\* followed by an error response on the same request.
C9_OneStatusLine ==
    \A t \in Workers :
        /\ HeadsWritten(t) <= 1
        /\ pc[t] = "done" => OneResponse(t)
        /\ \A i \in 1..Len(wfile[t]) :
              (wfile[t][i].chunk = "head" /\ wfile[t][i].status = 200)
              => \A j \in (i + 1)..Len(wfile[t]) :
                    /\ wfile[t][j].chunk = "body"
                    /\ "error" \notin DOMAIN wfile[t][j].payload

\* C10: the count is parsed and range-checked before the generator is
\* built, the generator is built before the type is looked up, and the
\* lookup precedes every producer call: a request whose count is no integer
\* or outside [1, 100] gets the count error (HTTP 400) whatever its type and
\* locale, with no generator built and no producer invoked; an unknown type
\* is rejected only after the generator was built for the requested locale.
C10_Order ==
    \A t \in Workers :
        (urlparse(path[t]).path = "/api/generate" /\ pc[t] \notin {"idle", "do_GET"}) =>
            /\ ~ValidCount(t)
               => /\ pc[t] \in {"validate", "done"}
                  /\ pc[t] = "done" => ErrorStatus(t, 400)
                  /\ (pc[t] = "done" /\ IsIntLiteral(RequestedCount(t)))
                     => ErrorIs(t, 400, <<"Count must be between 1 and 100">>)
                  /\ (pc[t] = "done" /\ ~IsIntLiteral(RequestedCount(t)))
                     => raised[t] = IntError(RequestedCount(t))
                  /\ frame[t].generator = -1
                  /\ ~heap[t].live
                  /\ invoked[t] = <<>>
            /\ raised[t].at = "lookup"
               => /\ frame[t].generator = t
                  /\ heap[t].live
                  /\ heap[t].locale = RequestedLocale(t)
                  /\ invoked[t] = <<>>
            /\ invoked[t] # <<>>
               => /\ heap[t].live
                  /\ RequestedType(t) \in DOMAIN generator_map

\* A request wrong in all three parameters is answered with the count error.
C10_Witness ==
    \E t \in Workers :
        /\ Generated(t)
        /\ RequestedCount(t) = <<"1", "0", "1">>
        /\ RequestedType(t) = "not_a_real_type"
        /\ RequestedLocale(t) = UnknownLocale
        /\ ErrorIs(t, 400, <<"Count must be between 1 and 100">>)

====
